---- MODULE Spec2Model ----
(***************************************************************************)
(* Request-span lifecycle of the Falcon TraceMiddleware                    *)
(* (ddtrace/contrib/falcon/middleware.py) and the patch/unpatch contract   *)
(* exercised by tests/contrib/asyncpg/test_asyncpg_patch.py.               *)
(*                                                                         *)
(* Python strings that the code formats, concatenates, lower-cases or      *)
(* partitions are sequences of one-character strings, so that the          *)
(* conversions are computed and not assumed.                               *)
(***************************************************************************)
EXTENDS Naturals, Sequences, FiniteSets, TLC

VARIABLES spans, active, hooks, distributed_tracing, last, registry, plast,
          lock, pc

vars == <<spans, active, hooks, distributed_tracing, last, registry, plast, lock, pc>>

reqVars == <<spans, active, hooks, distributed_tracing, last>>

\* the mutex of each library and where each thread is in patch() / unpatch()
callVars == <<lock, pc>>

patchVars == <<registry, plast, lock, pc>>

-----------------------------------------------------------------------------
(* Bounds of the model *)

\* spans the tracer creates in one behaviour
MaxSpans == 2

\* callbacks registered on the "request" hook
MaxHooks == 2

\* set_traceback() calls recorded on one span
MaxTracebacks == 2

\* patch() / unpatch() / entry-point calls recorded per behaviour
MaxCalls == 4

-----------------------------------------------------------------------------
(* Strings *)

\* Python None where a string is expected
NoneStr == <<"None">>

SP == " "

GET == <<"G", "E", "T">>

POST == <<"P", "O", "S", "T">>

Methods == {GET, POST}

S404 == <<"4", "0", "4">>

S500 == <<"5", "0", "0">>

StatusLines ==
    { <<"2", "0", "0", " ", "O", "K">>,
      <<"2", "0", "4">>,
      <<"4", "0", "4", " ", "N", "o", "t", " ", "F", "o", "u", "n", "d">> }

UpperChars == <<"A", "B", "C", "D", "E", "F", "G", "H", "I", "J", "K", "L", "M",
                "N", "O", "P", "Q", "R", "S", "T", "U", "V", "W", "X", "Y", "Z">>

LowerChars == <<"a", "b", "c", "d", "e", "f", "g", "h", "i", "j", "k", "l", "m",
                "n", "o", "p", "q", "r", "s", "t", "u", "v", "w", "x", "y", "z">>

\* str.lower() on one character
LowerChar(ch) ==
    IF \E i \in DOMAIN UpperChars : UpperChars[i] = ch
    THEN LowerChars[CHOOSE i \in DOMAIN UpperChars : UpperChars[i] = ch]
    ELSE ch

\* str.lower()
Lower(s) == [i \in DOMAIN s |-> LowerChar(s[i])]

\* Python truthiness of an optional string
Truthy(s) == s # NoneStr /\ s # <<>>

\* needle in hay
Contains(hay, needle) ==
    \E i \in 0..Len(hay) :
        /\ i + Len(needle) <= Len(hay)
        /\ \A j \in 1..Len(needle) : hay[i + j] = needle[j]

\* s.partition(sep)[0]: the part of s before the first sep, all of s without one
PartitionHead(s, sep) ==
    IF \E i \in DOMAIN s : s[i] = sep
    THEN SubSeq(s, 1, (CHOOSE i \in DOMAIN s :
                          s[i] = sep /\ \A j \in 1..(i - 1) : s[j] # sep) - 1)
    ELSE s

-----------------------------------------------------------------------------
(* Requests, responses, handlers, exception types *)

\* execution contexts (threads / tasks) that handle requests
Ctxs == {"c1", "c2"}

\* resource = None: no route matched
NoResource == [isNone |-> TRUE, module |-> <<>>, cls |-> <<>>]

Handlers == { [isNone |-> FALSE, module |-> <<"a", "p", "p">>, cls |-> <<"R", "e", "s">>] }

\* sys.exc_info()[0] is None: no exception in flight
NoExc == NoneStr

HTTPNotFound == <<"H", "T", "T", "P", "N", "o", "t", "F", "o", "u", "n", "d">>

ValueError == <<"V", "a", "l", "u", "e", "E", "r", "r", "o", "r">>

\* a subclass whose name only contains the marker
MyHTTPNotFoundError == <<"M", "y">> \o HTTPNotFound \o <<"E", "r", "r", "o", "r">>

\* __name__ of the exception types that can be in flight
ErrNames == {HTTPNotFound, ValueError, MyHTTPNotFoundError}

ExcInfos == {NoExc} \cup ErrNames

\* req_succeeded: True, False, or None (Falcon 1.0 does not pass it)
ReqSucceeded == {"True", "False", "None"}

RootPaths == {NoneStr, <<>>, <<"/", "v", "1">>}

UriTemplates == {<<"/", "a">>}

Url == <<"h", ":", "/", "/", "x", "/", "a">>

RespHeaders == <<"c", "t">>

XTID == <<"X", "-", "T", "I", "D">>

XPID == <<"X", "-", "P", "I", "D">>

\* header names of the propagation format, as the extractor looks them up
TraceIdKey == Lower(XTID)

ParentIdKey == Lower(XPID)

V71 == <<"7", "1">>

V72 == <<"7", "2">>

\* req.headers: (name, value) items in iteration order, names distinct
HeaderMaps ==
    { <<>>,
      << <<XTID, V71>> >>,
      << <<TraceIdKey, V71>> >>,
      << <<<<"X", "-", "T", "i", "d">>, V71>>, <<XPID, V72>> >>,
      << <<TraceIdKey, V71>>, <<ParentIdKey, V72>> >>,
      << <<XTID, <<"z">>>> >>,
      << <<XPID, V72>> >> }

-----------------------------------------------------------------------------
(* The tracer: spans and the active span of each execution context *)

NoActive == [kind |-> "none", span |-> 0, trace_id |-> 0, span_id |-> 0]

ActiveSpan(id) == [kind |-> "span", span |-> id, trace_id |-> 0, span_id |-> 0]

RemoteContext(t, p) == [kind |-> "remote", span |-> 0, trace_id |-> t, span_id |-> p]

NoTags ==
    [component |-> "", kind |-> "", measured |-> FALSE, method |-> NoneStr,
     url |-> NoneStr, req_headers |-> <<>>, status |-> NoneStr, route |-> NoneStr,
     resp_headers |-> NoneStr, custom |-> 0]

\* tracer.current_span(): the id of the active span of context c, 0 for None
current_span(w, c) == IF w.active[c].kind = "span" THEN w.active[c].span ELSE 0

\* tracer.trace(): a new span under whatever is active in c, and now active itself
TracerTrace(w, c, name, service, span_type) ==
    LET a == w.active[c]
        id == Len(w.spans) + 1
        new == [ctx |-> c, name |-> name, service |-> service,
                span_type |-> span_type, span_id |-> id,
                trace_id |-> CASE a.kind = "span" -> w.spans[a.span].trace_id
                               [] a.kind = "remote" -> a.trace_id
                               [] OTHER -> id,
                parent_id |-> CASE a.kind = "span" -> a.span
                                [] a.kind = "remote" -> a.span_id
                                [] OTHER -> 0,
                parent |-> IF a.kind = "span" THEN a.span ELSE 0,
                context |-> IF a.kind = "remote" THEN a ELSE NoActive,
                resource |-> NoneStr, tags |-> NoTags,
                traceback |-> 0, finished |-> 0]
    IN  [w EXCEPT !.spans = Append(w.spans, new), !.active[c] = ActiveSpan(id)]

\* the nearest span that is still open, from span p up its parents; 0 for none
RECURSIVE NearestOpen(_, _)
NearestOpen(sp, p) ==
    IF p = 0 THEN 0
    ELSE IF sp[p].finished = 0 THEN p
    ELSE NearestOpen(sp, sp[p].parent)

\* span.finish(): counts the call; the first one closes the span and hands the
\* context back to the nearest open ancestor
SpanFinish(w, s) ==
    LET c == w.spans[s].ctx
        sp == [w.spans EXCEPT ![s].finished = @ + 1]
        up == NearestOpen(sp, s)
    IN  [w EXCEPT !.spans = sp,
                  !.active[c] = IF w.spans[s].finished = 0 /\ w.active[c] = ActiveSpan(s)
                                THEN (IF up = 0 THEN NoActive ELSE ActiveSpan(up))
                                ELSE @]

\* a write to span s: w.late remembers a write that came after finish()
Touch(w, s) == [w EXCEPT !.late = @ \/ w.spans[s].finished > 0]

\* span.set_traceback()
SetTraceback(w, s) == [Touch(w, s) EXCEPT !.spans[s].traceback = @ + 1]

SetResource(w, s, r) == [Touch(w, s) EXCEPT !.spans[s].resource = r]

\* span.set_tag(http.STATUS_CODE, status)
SetStatusTag(w, s, status) == [Touch(w, s) EXCEPT !.spans[s].tags.status = status]

\* trace_utils.set_http_meta for the request side
SetRequestMeta(w, s, method, url, request_headers) ==
    [Touch(w, s) EXCEPT !.spans[s].tags.method = method, !.spans[s].tags.url = url,
                        !.spans[s].tags.req_headers = request_headers]

\* trace_utils.set_http_meta for the response side
SetResponseMeta(w, s, status_code, response_headers, route) ==
    [Touch(w, s) EXCEPT !.spans[s].tags.status = status_code,
                        !.spans[s].tags.resp_headers = response_headers,
                        !.spans[s].tags.route = route]

DigitChars == <<"0", "1", "2", "3", "4", "5", "6", "7", "8", "9">>

IsDigits(v) == v # <<>> /\ \A i \in DOMAIN v : \E d \in DOMAIN DigitChars : DigitChars[d] = v[i]

RECURSIVE ParseDigits(_)
ParseDigits(v) ==
    IF v = <<>> THEN 0
    ELSE ParseDigits(SubSeq(v, 1, Len(v) - 1)) * 10
         + (CHOOSE d \in DOMAIN DigitChars : DigitChars[d] = v[Len(v)]) - 1

\* a propagated id: the number a header value holds, 0 when absent or malformed
ParseId(v) == IF v # NoneStr /\ IsDigits(v) THEN ParseDigits(v) ELSE 0

\* dict(pairs): last value wins for a repeated key
RECURSIVE DictOf(_)
DictOf(pairs) ==
    IF pairs = <<>> THEN <<>>
    ELSE LET init == DictOf(SubSeq(pairs, 1, Len(pairs) - 1))
             kv == pairs[Len(pairs)]
         IN  [k \in (DOMAIN init) \cup {kv[1]} |-> IF k = kv[1] THEN kv[2] ELSE init[k]]

DictGet(d, k) == IF k \in DOMAIN d THEN d[k] ELSE NoneStr

\* the propagator's extract: the context the (already normalised) headers carry
Extract(headers) ==
    LET t == ParseId(DictGet(headers, TraceIdKey))
        p == ParseId(DictGet(headers, ParentIdKey))
    IN  IF t = 0 THEN NoActive ELSE RemoteContext(t, p)

\* trace_utils.activate_distributed_headers; w.handed keeps the header names
\* it was called with
activate_distributed_headers(w, c, enabled, request_headers) ==
    LET got == [w EXCEPT !.handed = DOMAIN request_headers]
    IN  IF enabled /\ Extract(request_headers) # NoActive
        THEN [got EXCEPT !.active[c] = Extract(request_headers)]
        ELSE got

-----------------------------------------------------------------------------
(* The "request" hook registry of the integration's configuration *)

\* what a registered callback does with (span, req, resp)
HookKinds == {"mutate", "raise"}

\* the resource the callback registered i-th writes
HookResource(i) == <<"h", "o", "o", "k", DigitChars[i + 1]>>

\* one callback call: it sees the span as it is now, then mutates it or raises
RunCallback(w, kind, i, s) ==
    LET seen == [w EXCEPT !.obs = Append(@, [cb |-> i, open |-> w.spans[s].finished = 0])]
    IN  IF kind = "raise"
        THEN [seen EXCEPT !.raised = TRUE]
        ELSE [Touch(seen, s) EXCEPT !.spans[s].resource = HookResource(i),
                                    !.spans[s].tags.custom = i]

\* hooks.emit("request", span, req, resp): every callback from the i-th on, in
\* registration order; an exception of a callback ends the emission
RECURSIVE EmitFrom(_, _, _, _)
EmitFrom(w, hs, i, s) ==
    IF i > Len(hs) \/ w.raised THEN w
    ELSE EmitFrom(RunCallback(w, hs[i], i, s), hs, i + 1, s)

emit(w, hs, s) == EmitFrom(w, hs, 1, s)

-----------------------------------------------------------------------------
(* TraceMiddleware *)

\* "%s %s" % (a, b)
Format2(a, b) == a \o <<SP>> \o b

\* _name(r)
_name(r) == r.module \o <<".">> \o r.cls

\* "HTTPNotFound" in err_type.__name__
_is_404(err_type) == Contains(err_type, HTTPNotFound)

\* as _detect_and_set_status_error, but the traceback is set before the test
DetectAlwaysTraceback(err_type, w, s) ==
    IF ~_is_404(err_type)
    THEN [status |-> S500, w |-> SetTraceback(w, s)]
    ELSE [status |-> S404, w |-> SetTraceback(w, s)]

\* _detect_and_set_status_error(err_type, span): the status it returns (NoneStr
\* when it falls off its end) and the tracer after it
_detect_and_set_status_error(err_type, w, s) ==
    IF ~_is_404(err_type)
    THEN [status |-> S500, w |-> SetTraceback(w, s)]
    ELSE IF _is_404(err_type)
    THEN [status |-> S404, w |-> w]
    ELSE [status |-> NoneStr, w |-> w]

\* as NormalizeHeaders, but without k.lower()
NormalizeHeadersAsIs(headers) == DictOf(headers)

\* headers = dict((k.lower(), v) for k, v in iteritems(req.headers))
NormalizeHeaders(headers) ==
    DictOf([i \in DOMAIN headers |-> <<Lower(headers[i][1]), headers[i][2]>>])

\* as RequestSpan, but the span is started without being activated
RequestSpanNotActive(w, c) ==
    [TracerTrace(w, c, "falcon.request", "falcon", "web") EXCEPT !.active = w.active]

\* self.tracer.trace("falcon.request", service=self.service, span_type=SpanTypes.WEB)
RequestSpan(w, c) == TracerTrace(w, c, "falcon.request", "falcon", "web")

\* process_request(req, resp) in context c
process_request(w, c, enabled, req) ==
    LET headers == NormalizeHeaders(req.headers)
        w1 == activate_distributed_headers(w, c, enabled, headers)
        w2 == RequestSpan(w1, c)
        s == Len(w2.spans)
        w3 == [Touch(w2, s) EXCEPT !.spans[s].tags.component = "falcon",
                                   !.spans[s].tags.kind = "server",
                                   !.spans[s].tags.measured = TRUE]
    IN  SetRequestMeta(w3, s, req.method, req.url, req.headers)

\* as SpanMissing, but the test is gone
SpanMissingNever(s) == FALSE

\* "if not span: return"
SpanMissing(s) == s = 0

\* an attribute access on None raises
AttributeError(w) == [w EXCEPT !.raised = TRUE]

\* as process_resource, but the span is the one the middleware created last,
\* kept on the instance
process_resourceStoredSpan(w, c, method, resource) ==
    LET s == Len(w.spans)
    IN  IF SpanMissing(s) THEN w
        ELSE SetResource(w, s, Format2(method, _name(resource)))

\* process_resource(req, resp, resource, params) in context c
process_resource(w, c, method, resource) ==
    LET s == current_span(w, c)
    IN  IF SpanMissing(s) THEN w
        ELSE IF s = 0 THEN AttributeError(w)
        ELSE SetResource(w, s, Format2(method, _name(resource)))

\* as UnmatchedRoute, but the status parsed from the response is kept
UnmatchedRouteKeepsStatus(w, s, method, parsed) ==
    LET w1 == SetResource(w, s, Format2(method, S404))
        w2 == SetStatusTag(w1, s, parsed)
    IN  SpanFinish(w2, s)

\* as UnmatchedRoute, but span.finish() comes first
UnmatchedRouteFinishFirst(w, s, method, parsed) ==
    LET status == S404
        w1 == SpanFinish(w, s)
        w2 == SetResource(w1, s, Format2(method, S404))
    IN  SetStatusTag(w2, s, status)

\* the branch "if resource is None" of process_response; parsed is the status
\* read from resp.status, which the branch overwrites
UnmatchedRoute(w, s, method, parsed) ==
    LET status == S404
        w1 == SetResource(w, s, Format2(method, S404))
        w2 == SetStatusTag(w1, s, status)
    IN  SpanFinish(w2, s)

\* as InferStatus, but req_succeeded is not looked at
InferStatusIgnoringSuccess(w, s, status, err_type, req_succeeded) ==
    IF err_type # NoExc
    THEN _detect_and_set_status_error(err_type, w, s)
    ELSE [status |-> status, w |-> w]

\* the inference of the status from the exception in flight
InferStatus(w, s, status, err_type, req_succeeded) ==
    IF err_type # NoExc
    THEN IF req_succeeded = "None"
         THEN _detect_and_set_status_error(err_type, w, s)
         ELSE IF req_succeeded = "False"
         THEN _detect_and_set_status_error(err_type, w, s)
         ELSE [status |-> status, w |-> w]
    ELSE [status |-> status, w |-> w]

\* route = req.root_path or "" + req.uri_template
\* ("+" binds tighter than "or")
Route(root_path, uri_template) ==
    IF Truthy(root_path) THEN root_path ELSE <<>> \o uri_template

\* as EmitAndFinish, but the span is closed before the hook is emitted
FinishThenEmit(w, hs, s) == emit(SpanFinish(w, s), hs, s)

\* as EmitAndFinish, but span.finish() is there twice
EmitAndFinishTwice(w, hs, s) ==
    LET w1 == emit(w, hs, s)
    IN  IF w1.raised THEN w1 ELSE SpanFinish(SpanFinish(w1, s), s)

\* as EmitAndFinish, but span.finish() sits in a finally clause
EmitFinallyFinish(w, hs, s) == SpanFinish(emit(w, hs, s), s)

\* as EmitAndFinish, but without span.finish()
EmitOnly(w, hs, s) == emit(w, hs, s)

\* hooks.emit("request", span, req, resp), then span.finish() unless a callback raised
EmitAndFinish(w, hs, s) ==
    LET w1 == emit(w, hs, s)
    IN  IF w1.raised THEN w1 ELSE SpanFinish(w1, s)

\* the open span that the latest process_request of context c created, 0 for none
OwnRequestSpan(sp, c) ==
    LET open == { i \in DOMAIN sp : /\ sp[i].ctx = c
                                    /\ sp[i].name = "falcon.request"
                                    /\ sp[i].finished = 0 }
    IN  IF open = {} THEN 0 ELSE CHOOSE i \in open : \A j \in open : j <= i

\* as process_response, but the span is the one process_request created, kept
\* with the request, and not tracer.current_span()
process_responseStoredSpan(w, c, hs, req, resp, resource, req_succeeded, err_type) ==
    LET s == OwnRequestSpan(w.spans, c)
    IN  IF SpanMissing(s) THEN w
        ELSE LET status == PartitionHead(resp.status, SP)
             IN  IF resource.isNone
                 THEN UnmatchedRoute(w, s, req.method, status)
                 ELSE LET inf == InferStatus(w, s, status, err_type, req_succeeded)
                          route == Route(req.root_path, req.uri_template)
                          w1 == SetResponseMeta(inf.w, s, inf.status, resp.headers, route)
                      IN  EmitAndFinish(w1, hs, s)

\* as process_response, but the branch "if resource is None" does not return
process_responseFallThrough(w, c, hs, req, resp, resource, req_succeeded, err_type) ==
    LET s == current_span(w, c)
    IN  IF SpanMissing(s) THEN w
        ELSE LET status == PartitionHead(resp.status, SP)
                 w0 == IF resource.isNone
                       THEN UnmatchedRoute(w, s, req.method, status) ELSE w
                 inf == InferStatus(w0, s, status, err_type, req_succeeded)
                 route == Route(req.root_path, req.uri_template)
                 w1 == SetResponseMeta(inf.w, s, inf.status, resp.headers, route)
             IN  EmitAndFinish(w1, hs, s)

\* process_response(req, resp, resource, req_succeeded) in context c
process_response(w, c, hs, req, resp, resource, req_succeeded, err_type) ==
    LET s == current_span(w, c)
    IN  IF SpanMissing(s) THEN w
        ELSE IF s = 0 THEN AttributeError(w)
        ELSE LET status == PartitionHead(resp.status, SP)
             IN  IF resource.isNone
                 THEN UnmatchedRoute(w, s, req.method, status)
                 ELSE LET inf == InferStatus(w, s, status, err_type, req_succeeded)
                          route == Route(req.root_path, req.uri_template)
                          w1 == SetResponseMeta(inf.w, s, inf.status, resp.headers, route)
                      IN  EmitAndFinish(w1, hs, s)

-----------------------------------------------------------------------------
(* The state machine of the request side *)

\* the tracer as the operators above see it, before a callback runs
World ==
    [spans |-> spans, active |-> active, raised |-> FALSE, obs |-> <<>>, handed |-> {},
     late |-> FALSE]

\* what the framework may pass to the callbacks: every combination, for the
\* steps of a single request
AllInputs ==
    [methods |-> Methods, headers |-> {<<>>},
     status_lines |-> StatusLines,
     resources |-> {NoResource} \cup Handlers, req_succeeded |-> ReqSucceeded,
     excs |-> ExcInfos, root_paths |-> RootPaths, uri_templates |-> UriTemplates]

\* one value of each kind that decides a branch, for the interleavings of
\* several requests, child spans and hooks
BranchInputs ==
    [methods |-> {GET}, headers |-> {<<>>, << <<XTID, V71>> >>},
     status_lines |-> {<<"2", "0", "0", " ", "O", "K">>},
     resources |-> {NoResource} \cup Handlers, req_succeeded |-> {"False"},
     excs |-> {NoExc, ValueError}, root_paths |-> {<<>>},
     uri_templates |-> UriTemplates]

\* the same, with every classification of an exception, for a request with
\* callbacks on the "request" hook
HookInputs ==
    [BranchInputs EXCEPT !.req_succeeded = ReqSucceeded,
                         !.excs = {NoExc, ValueError, HTTPNotFound}]

\* every header mapping, for the extraction of the distributed context
HeaderInputs == [BranchInputs EXCEPT !.headers = HeaderMaps]

\* the last callback: what it was given (as far as it read it) and what it did
NoLast ==
    [op |-> "none", ctx |-> "c1", span |-> 0, raised |-> FALSE, late |-> FALSE, obs |-> <<>>,
     method |-> NoneStr, headers |-> <<>>, handed |-> {}, status_line |-> NoneStr,
     matched |-> FALSE, req_succeeded |-> "None", err_type |-> NoExc,
     root_path |-> NoneStr, uri_template |-> NoneStr]

InitRequests ==
    /\ spans = <<>>
    /\ active = [c \in Ctxs |-> NoActive]
    /\ hooks = <<>>
    /\ distributed_tracing \in BOOLEAN
    /\ last = NoLast

\* config.falcon.hooks.register("request", callback)
RegisterHook(kind) ==
    /\ Len(hooks) < MaxHooks
    /\ hooks' = Append(hooks, kind)
    /\ last' = [NoLast EXCEPT !.op = "register"]
    /\ UNCHANGED <<spans, active, distributed_tracing, patchVars>>

ProcessRequest(c, D) ==
    /\ \E method \in D.methods, headers \in D.headers :
         LET req == [method |-> method, url |-> Url, headers |-> headers]
             w == process_request(World, c, distributed_tracing, req)
         IN  /\ spans' = w.spans
             /\ active' = w.active
             /\ last' = [NoLast EXCEPT !.op = "process_request", !.ctx = c,
                                       !.span = current_span(w, c), !.late = w.late,
                                       !.method = method, !.headers = headers,
                                       !.handed = w.handed]
    /\ UNCHANGED <<hooks, distributed_tracing, patchVars>>

ProcessResource(c, D) ==
    /\ \E method \in D.methods, resource \in D.resources \ {NoResource} :
         LET w == process_resource(World, c, method, resource)
             s == current_span(World, c)
         IN  /\ spans' = w.spans
             /\ active' = w.active
             /\ last' = IF s = 0 /\ ~w.raised
                        THEN [NoLast EXCEPT !.op = "process_resource", !.ctx = c]
                        ELSE [NoLast EXCEPT !.op = "process_resource", !.ctx = c,
                                            !.span = s, !.raised = w.raised,
                                            !.late = w.late,
                                            !.method = method, !.matched = TRUE]
    /\ UNCHANGED <<hooks, distributed_tracing, patchVars>>

ProcessResponse(c, D) ==
    /\ \E method \in D.methods, status_line \in D.status_lines,
          resource \in D.resources,
          req_succeeded \in D.req_succeeded, err_type \in D.excs,
          root_path \in D.root_paths, uri_template \in D.uri_templates :
         LET req == [method |-> method, root_path |-> root_path,
                     uri_template |-> uri_template]
             resp == [status |-> status_line, headers |-> RespHeaders]
             w == process_response(World, c, hooks, req, resp, resource,
                                   req_succeeded, err_type)
             s == current_span(World, c)
             head == [NoLast EXCEPT !.op = "process_response", !.ctx = c,
                                    !.span = s, !.raised = w.raised, !.late = w.late,
                                    !.obs = w.obs]
         IN  /\ \A i \in DOMAIN w.spans : w.spans[i].traceback <= MaxTracebacks
             /\ spans' = w.spans
             /\ active' = w.active
             /\ last' = IF s = 0 /\ ~w.raised
                        THEN head
                        ELSE IF resource.isNone
                        THEN [head EXCEPT !.method = method,
                                          !.status_line = status_line]
                        ELSE [head EXCEPT !.method = method,
                                          !.status_line = status_line,
                                          !.matched = TRUE,
                                          !.req_succeeded = req_succeeded,
                                          !.err_type = err_type,
                                          !.root_path = root_path,
                                          !.uri_template = uri_template]
    /\ UNCHANGED <<hooks, distributed_tracing, patchVars>>

\* nested instrumentation opens a span under the active one
ChildStart(c) ==
    /\ Len(spans) < MaxSpans
    /\ current_span(World, c) # 0
    /\ LET w == TracerTrace(World, c, "child", "db", "sql")
       IN  /\ spans' = w.spans
           /\ active' = w.active
    /\ last' = [NoLast EXCEPT !.op = "child_start", !.ctx = c, !.span = Len(spans) + 1]
    /\ UNCHANGED <<hooks, distributed_tracing, patchVars>>

\* nested instrumentation finishes one of its open spans
ChildFinish(c) ==
    /\ \E s \in DOMAIN spans :
         /\ spans[s].ctx = c
         /\ spans[s].name = "child"
         /\ spans[s].finished = 0
         /\ LET w == SpanFinish(World, s)
            IN  /\ spans' = w.spans
                /\ active' = w.active
         /\ last' = [NoLast EXCEPT !.op = "child_finish", !.ctx = c, !.span = s]
    /\ UNCHANGED <<hooks, distributed_tracing, patchVars>>

\* requests of several contexts and the child spans under them, interleaved
NextRequests ==
    \/ \E c \in Ctxs : Len(spans) < MaxSpans /\ ProcessRequest(c, BranchInputs)
    \/ \E c \in Ctxs : ProcessResource(c, BranchInputs)
    \/ \E c \in Ctxs : ProcessResponse(c, BranchInputs)
    \/ \E c \in Ctxs : ChildStart(c)
    \/ \E c \in Ctxs : ChildFinish(c)

\* the callbacks of one request, in any order and number, with callbacks
\* registered on the "request" hook
NextHooks ==
    \/ \E kind \in HookKinds : RegisterHook(kind)
    \/ spans = <<>> /\ ProcessRequest("c1", HookInputs)
    \/ ProcessResource("c1", HookInputs)
    \/ ProcessResponse("c1", HookInputs)

\* the callbacks of one request on a fresh tracer, with every input
NextOneRequest ==
    \/ spans = <<>> /\ ProcessRequest("c1", AllInputs)
    \/ ProcessResource("c1", AllInputs)
    \/ ProcessResponse("c1", AllInputs)

\* one request in each context, with every header mapping
NextHeaders ==
    \/ \E c \in Ctxs : /\ \A s \in DOMAIN spans : spans[s].ctx # c
                       /\ ProcessRequest(c, HeaderInputs)
    \/ \E c \in Ctxs : ProcessResponse(c, HeaderInputs)

\* two requests handled at the same time, one in each context, their
\* callbacks interleaved in any order
NextTwoRequests ==
    \/ \E c \in Ctxs : /\ \A s \in DOMAIN spans : spans[s].ctx # c
                       /\ ProcessRequest(c, HookInputs)
    \/ \E c \in Ctxs : ProcessResource(c, HookInputs)
    \/ \E c \in Ctxs : ProcessResponse(c, HookInputs)

-----------------------------------------------------------------------------
(* The patch registry: one PatchState per instrumentable library *)

Libs == {"asyncpg", "falcon"}

Version == "0.29.0"

\* no version: the library is not installed
NoVersion == ""

\* a library whose entry points nothing wraps
Pristine(installed) ==
    [installed |-> installed, patched |-> FALSE, entry |-> <<>>, streak |-> 0]

NoPLast == [op |-> "none", lib |-> "asyncpg", result |-> "", spans |-> 0]

\* what callers can observe of a library: the flag and the entry points
Observable(st) == <<st.patched, st.entry>>

\* threads that initialise or tear down instrumentation
Threads == {"t1", "t2"}

Free == "free"

Idle == [op |-> "none", lib |-> "asyncpg", at |-> "idle", seen |-> Pristine(FALSE)]

InitThreads ==
    /\ lock = [lib \in Libs |-> Free]
    /\ pc = [t \in Threads |-> Idle]

\* as patch, but without the test of the patched flag
patchUnguarded(st) ==
    IF ~st.installed THEN st
    ELSE [st EXCEPT !.patched = TRUE, !.entry = Append(@, "traced")]

\* as patch, but the absence of the library is not detected
patchAbsent(st) ==
    IF st.patched THEN st
    ELSE [st EXCEPT !.patched = TRUE, !.entry = Append(@, "traced")]

\* patch(): a no-op when patched already or when the library is missing;
\* otherwise one tracing wrapper goes around the entry points
patch(st) ==
    IF st.patched \/ ~st.installed THEN st
    ELSE [st EXCEPT !.patched = TRUE, !.entry = Append(@, "traced")]

\* unpatch(): a no-op when not patched; otherwise the wrapper comes off
unpatch(st) ==
    IF ~st.patched THEN st
    ELSE [st EXCEPT !.patched = FALSE, !.entry = SubSeq(@, 1, Len(@) - 1)]

is_patched(st) == st.patched

get_version(st) == IF st.installed THEN Version ELSE NoVersion

\* one call of an entry point: every wrapper around it emits one span
SpansPerCall(st) == Len(st.entry)

InitPatch ==
    /\ registry \in [Libs -> {Pristine(i) : i \in BOOLEAN}]
    /\ plast = NoPLast
    /\ InitThreads

Patch(lib) ==
    /\ registry[lib].streak < MaxCalls
    /\ registry' = [registry EXCEPT ![lib] = [patch(@) EXCEPT !.streak = @ + 1]]
    /\ plast' = [NoPLast EXCEPT !.op = "patch", !.lib = lib]
    /\ UNCHANGED <<reqVars, callVars>>

Unpatch(lib) ==
    /\ registry' = [registry EXCEPT ![lib] = [unpatch(@) EXCEPT !.streak = 0]]
    /\ plast' = [NoPLast EXCEPT !.op = "unpatch", !.lib = lib]
    /\ UNCHANGED <<reqVars, callVars>>

IsPatched(lib) ==
    /\ plast' = [NoPLast EXCEPT !.op = "is_patched", !.lib = lib,
                                !.result = IF is_patched(registry[lib]) THEN "True" ELSE "False"]
    /\ UNCHANGED <<registry, reqVars, callVars>>

GetVersion(lib) ==
    /\ plast' = [NoPLast EXCEPT !.op = "get_version", !.lib = lib,
                                !.result = get_version(registry[lib])]
    /\ UNCHANGED <<registry, reqVars, callVars>>

\* the application calls an entry point of an installed library
Call(lib) ==
    /\ registry[lib].installed
    /\ plast' = [NoPLast EXCEPT !.op = "call", !.lib = lib,
                                !.spans = SpansPerCall(registry[lib])]
    /\ UNCHANGED <<registry, reqVars, callVars>>

NextPatch ==
    \/ \E lib \in Libs : Patch(lib)
    \/ \E lib \in Libs : Unpatch(lib)
    \/ \E lib \in Libs : IsPatched(lib)
    \/ \E lib \in Libs : GetVersion(lib)
    \/ \E lib \in Libs : Call(lib)

-----------------------------------------------------------------------------
(* patch() and unpatch() called from several threads: each call is a critical *)
(* section under the mutex of its library, taken step by step                *)

\* as LockFree, but the mutex is not looked at
LockFreeAlways(l) == TRUE

\* the mutex can be taken
LockFree(l) == l = Free

\* "no-op if already patched", and nothing to wrap when the library is missing
NeedsPatch(st) == ~(st.patched \/ ~st.installed)

\* "no-op if not patched"
NeedsUnpatch(st) == st.patched

\* one tracing wrapper goes around the entry points
WrapEntry(st) == [st EXCEPT !.entry = Append(@, "traced")]

\* the original entry points come back
UnwrapEntry(st) == [st EXCEPT !.entry = SubSeq(@, 1, Len(@) - 1)]

MarkPatched(st) == [st EXCEPT !.patched = TRUE]

MarkUnpatched(st) == [st EXCEPT !.patched = FALSE]

\* what the whole call does when nothing runs beside it
Atomic(op, st) == IF op = "patch" THEN patch(st) ELSE unpatch(st)

\* thread t calls patch() or unpatch() of a library
BeginCall(t, lib, op) ==
    /\ pc[t] = Idle
    /\ pc' = [pc EXCEPT ![t] = [Idle EXCEPT !.op = op, !.lib = lib, !.at = "acquire"]]
    /\ UNCHANGED <<registry, plast, lock, reqVars>>

Acquire(t) ==
    /\ pc[t].at = "acquire"
    /\ LockFree(lock[pc[t].lib])
    /\ lock' = [lock EXCEPT ![pc[t].lib] = t]
    /\ pc' = [pc EXCEPT ![t].at = "check", ![t].seen = registry[pc[t].lib]]
    /\ UNCHANGED <<registry, plast, reqVars>>

\* the test of the patched flag at the head of patch() and unpatch()
CheckFlag(t) ==
    /\ pc[t].at = "check"
    /\ LET st == registry[pc[t].lib]
       IN  pc' = [pc EXCEPT ![t].at =
                     IF pc[t].op = "patch"
                     THEN (IF NeedsPatch(st) THEN "wrap" ELSE "release")
                     ELSE (IF NeedsUnpatch(st) THEN "unwrap" ELSE "release")]
    /\ UNCHANGED <<registry, plast, lock, reqVars>>

Wrap(t) ==
    /\ pc[t].at = "wrap"
    /\ Len(registry[pc[t].lib].entry) < MaxCalls
    /\ registry' = [registry EXCEPT ![pc[t].lib] = WrapEntry(@)]
    /\ pc' = [pc EXCEPT ![t].at = "mark"]
    /\ UNCHANGED <<plast, lock, reqVars>>

Mark(t) ==
    /\ pc[t].at = "mark"
    /\ registry' = [registry EXCEPT ![pc[t].lib] = MarkPatched(@)]
    /\ pc' = [pc EXCEPT ![t].at = "release"]
    /\ UNCHANGED <<plast, lock, reqVars>>

Unwrap(t) ==
    /\ pc[t].at = "unwrap"
    /\ registry' = [registry EXCEPT ![pc[t].lib] = UnwrapEntry(@)]
    /\ pc' = [pc EXCEPT ![t].at = "unmark"]
    /\ UNCHANGED <<plast, lock, reqVars>>

Unmark(t) ==
    /\ pc[t].at = "unmark"
    /\ registry' = [registry EXCEPT ![pc[t].lib] = MarkUnpatched(@)]
    /\ pc' = [pc EXCEPT ![t].at = "release"]
    /\ UNCHANGED <<plast, lock, reqVars>>

\* the call returns: the mutex is given back; the result says whether the
\* call did what it does when nothing runs beside it
Release(t) ==
    /\ pc[t].at = "release"
    /\ lock' = [lock EXCEPT ![pc[t].lib] = Free]
    /\ plast' = [NoPLast EXCEPT !.op = pc[t].op, !.lib = pc[t].lib,
                                !.result = IF Observable(registry[pc[t].lib])
                                              = Observable(Atomic(pc[t].op, pc[t].seen))
                                           THEN "atomic" ELSE "torn"]
    /\ pc' = [pc EXCEPT ![t] = Idle]
    /\ UNCHANGED <<registry, reqVars>>

\* a caller looks at the library under its mutex: is_patched() and the spans
\* one call of an entry point emits
Observe(t, lib) ==
    /\ pc[t] = Idle
    /\ LockFree(lock[lib])
    /\ plast' = [NoPLast EXCEPT !.op = "observe", !.lib = lib,
                                !.result = IF is_patched(registry[lib]) THEN "True" ELSE "False",
                                !.spans = SpansPerCall(registry[lib])]
    /\ UNCHANGED <<registry, lock, pc, reqVars>>

NextThreads ==
    \/ \E t \in Threads, lib \in Libs, op \in {"patch", "unpatch"} : BeginCall(t, lib, op)
    \/ \E t \in Threads : Acquire(t)
    \/ \E t \in Threads : CheckFlag(t)
    \/ \E t \in Threads : Wrap(t)
    \/ \E t \in Threads : Mark(t)
    \/ \E t \in Threads : Unwrap(t)
    \/ \E t \in Threads : Unmark(t)
    \/ \E t \in Threads : Release(t)
    \/ \E t \in Threads, lib \in Libs : Observe(t, lib)

\* the request side runs with the libraries installed and not yet patched
InitUnpatched ==
    /\ registry = [lib \in Libs |-> Pristine(TRUE)]
    /\ plast = NoPLast
    /\ InitThreads

Init == InitRequests /\ InitUnpatched

\* distributed tracing left at its default
InitDefault == Init /\ distributed_tracing = TRUE

\* the patch side runs before any request
InitRegistry == InitRequests /\ distributed_tracing = TRUE /\ InitPatch

Spec == InitDefault /\ [][NextRequests]_vars

HookSpec == InitDefault /\ [][NextHooks]_vars

OneRequestSpec == InitDefault /\ [][NextOneRequest]_vars

HeaderSpec == Init /\ [][NextHeaders]_vars

PatchSpec == InitRegistry /\ [][NextPatch]_vars

ThreadSpec == InitRegistry /\ [][NextThreads]_vars

TwoRequestSpec == InitDefault /\ [][NextTwoRequests]_vars

\* one request whose handling reaches the response-ready callback: the
\* framework calls process_response for the request it started
LiveSpec ==
    InitDefault /\ [][NextHooks]_vars /\ WF_vars(ProcessResponse("c1", HookInputs))

-----------------------------------------------------------------------------
(* Properties of one request: OneRequestSpec *)

\* a step that is a process_response call acting on the active span of its context
ResponseStep == last'.op = "process_response" /\ last'.span # 0

\* the status code each status line starts with
CodeOf(status_line) ==
    CASE status_line = <<"2", "0", "0", " ", "O", "K">> -> <<"2", "0", "0">>
      [] status_line = <<"2", "0", "4">> -> <<"2", "0", "4">>
      [] OTHER -> <<"4", "0", "4">>

\* C1: process_response with an active span and resource = None always leaves
\* the span finished, with status tag "404" and resource "<METHOD> 404",
\* whatever the status line, req_succeeded and the exception in flight are, and
\* it sets no traceback on it.
C1_UnmatchedRouteIs404 ==
    [][(ResponseStep /\ ~last'.matched) =>
         LET s == last'.span
         IN  /\ spans[s].finished = 0
             /\ spans'[s].finished = 1
             /\ spans'[s].tags.status = <<"4", "0", "4">>
             /\ last'.method = GET => spans'[s].resource = <<"G", "E", "T", " ", "4", "0", "4">>
             /\ last'.method = POST =>
                  spans'[s].resource = <<"P", "O", "S", "T", " ", "4", "0", "4">>
             /\ spans'[s].traceback = spans[s].traceback]_vars

\* an unmatched route answered "200 OK" whose span ended as "POST 404"
C1_Witness ==
    /\ last.op = "process_response" /\ last.span # 0 /\ ~last.matched
    /\ last.status_line = <<"2", "0", "0", " ", "O", "K">>
    /\ last.method = POST
    /\ spans[last.span].finished = 1
    /\ spans[last.span].tags.status = S404

\* a process_response step that ran the error classifier
ClassifierStep ==
    /\ ResponseStep /\ last'.matched
    /\ last'.err_type # NoExc
    /\ last'.req_succeeded \in {"None", "False"}

\* C2: for every exception type the classifier produces exactly one of
\* status "404" with no traceback set (the type name contains "HTTPNotFound")
\* and status "500" with the traceback set; never both, never neither.
C2_ClassifierExclusive ==
    [][ClassifierStep =>
         LET s == last'.span
             notFound == /\ spans'[s].tags.status = <<"4", "0", "4">>
                         /\ spans'[s].traceback = spans[s].traceback
             serverError == /\ spans'[s].tags.status = <<"5", "0", "0">>
                            /\ spans'[s].traceback = spans[s].traceback + 1
         IN  /\ notFound \/ serverError
             /\ ~(notFound /\ serverError)
             /\ notFound <=> last'.err_type \in {HTTPNotFound, MyHTTPNotFoundError}]_vars

\* a type whose name only contains the marker was classified "404", no traceback
C2_Witness ==
    /\ last.op = "process_response" /\ last.span # 0 /\ last.matched
    /\ last.err_type = MyHTTPNotFoundError
    /\ last.req_succeeded = "False"
    /\ spans[last.span].tags.status = S404
    /\ spans[last.span].traceback = 0

\* C5: on a matched route the recorded status is an inferred one ("404" or
\* "500") exactly when an exception is in flight and req_succeeded is unknown
\* or false; otherwise it is the status line up to its first space and no
\* traceback is set. process_response itself leaves span.resource alone.
C5_StatusInference ==
    [][(ResponseStep /\ last'.matched) =>
         LET s == last'.span
             inferred == /\ last'.err_type # NoExc
                         /\ last'.req_succeeded \in {"None", "False"}
         IN  /\ inferred =>
                  spans'[s].tags.status = IF last'.err_type = ValueError
                                          THEN <<"5", "0", "0">> ELSE <<"4", "0", "4">>
             /\ ~inferred => /\ spans'[s].tags.status = CodeOf(last'.status_line)
                             /\ spans'[s].traceback = spans[s].traceback
             /\ spans'[s].resource = spans[s].resource]_vars

\* an exception was in flight, the request succeeded, and the status line won
C5_Witness ==
    /\ last.op = "process_response" /\ last.span # 0 /\ last.matched
    /\ last.err_type = ValueError
    /\ last.req_succeeded = "True"
    /\ last.status_line = <<"2", "0", "4">>
    /\ spans[last.span].tags.status = <<"2", "0", "4">>
    /\ spans[last.span].traceback = 0
    /\ spans[last.span].resource = <<"G", "E", "T", " ", "a", "p", "p", ".", "R", "e", "s">>

\* root_path with None and "" read as the empty string
RootOrEmpty(root_path) == IF root_path = NoneStr THEN <<>> ELSE root_path

\* C6: on a matched route the route recorded on the span is root_path +
\* uri_template, an absent or empty root_path counting as "".
C6_RouteIsConcatenation ==
    (last.op = "process_response" /\ last.span # 0 /\ last.matched) =>
        spans[last.span].tags.route = RootOrEmpty(last.root_path) \o last.uri_template

-----------------------------------------------------------------------------
(* Properties of one request with hook callbacks: HookSpec *)

\* C3: whatever sequence of process_request, process_resource and
\* process_response callbacks a request goes through, with process_response
\* repeated and taking either branch, finish is called at most once on a span.
C3_FinishAtMostOnce == \A s \in DOMAIN spans : spans[s].finished <= 1

\* a matched-route process_response recorded the route but a callback raised;
\* a later process_response on the unmatched branch then finished the span
C3_Witness ==
    /\ last.op = "process_response" /\ last.span # 0 /\ ~last.matched
    /\ spans[last.span].tags.route # NoneStr
    /\ spans[last.span].finished = 1

\* the resource the callback registered i-th writes
HookName(i) ==
    CASE i = 1 -> <<"h", "o", "o", "k", "1">>
      [] i = 2 -> <<"h", "o", "o", "k", "2">>
      [] i = 3 -> <<"h", "o", "o", "k", "3">>
      [] OTHER -> <<"h", "o", "o", "k", "4">>

\* C4: the callbacks of the "request" hook run in registration order, one
\* after the other, inside process_response; each sees the span still open,
\* and what the last mutating callback wrote is on the finished span.
C4_HooksBeforeFinish ==
    (last.op = "process_response" /\ last.span # 0 /\ last.matched) =>
        LET s == last.span
            o == last.obs
        IN  /\ \A i \in DOMAIN o : o[i].cb = i /\ o[i].open
            /\ ~last.raised =>
                 /\ Len(o) = Len(hooks)
                 /\ spans[s].finished = 1
                 /\ \A i \in DOMAIN hooks :
                      (hooks[i] = "mutate" /\ \A j \in DOMAIN hooks : j > i => hooks[j] # "mutate")
                      => /\ spans[s].resource = HookName(i)
                         /\ spans[s].tags.custom = i
            /\ last.raised =>
                 /\ Len(o) <= Len(hooks)
                 /\ hooks[Len(o)] = "raise"
                 /\ \A i \in 1..(Len(o) - 1) : hooks[i] # "raise"

\* two callbacks ran in order on an open span and the second one's resource stayed
C4_Witness ==
    /\ last.op = "process_response" /\ last.span # 0 /\ last.matched
    /\ hooks = <<"mutate", "mutate">>
    /\ Len(last.obs) = 2
    /\ spans[last.span].finished = 1
    /\ spans[last.span].resource = <<"h", "o", "o", "k", "2">>

\* C7: without an active span process_resource and process_response are
\* no-ops: nothing is raised, no span is created, tagged or finished, no hook
\* callback runs, and the tracer and the configuration stay as they were.
C7_NoSpanNoOp ==
    [][(last'.op \in {"process_resource", "process_response"}
        /\ active[last'.ctx].kind # "span") =>
         /\ ~last'.raised
         /\ last'.obs = <<>>
         /\ spans' = spans
         /\ active' = active
         /\ hooks' = hooks]_vars

\* process_response found no active span although a callback is registered
\* and the request's span exists (it is finished)
C7_Witness ==
    /\ last.op = "process_response" /\ last.span = 0
    /\ hooks # <<>>
    /\ spans # <<>>
    /\ active[last.ctx] = NoActive

\* C13: when a callback of the "request" hook raises inside process_response
\* the exception leaves process_response, that invocation does not call
\* finish, and the span is still open and the active span of the context; on
\* a matched route with an active span a raising callback always has this
\* effect.
C13_RaisingHookLeavesSpanOpen ==
    [][/\ (ResponseStep /\ last'.raised) =>
            LET s == last'.span
            IN  /\ \E i \in DOMAIN hooks : hooks[i] = "raise"
                /\ last'.matched
                /\ spans'[s].finished = spans[s].finished
                /\ spans'[s].finished = 0
                /\ active'[last'.ctx] = ActiveSpan(s)
       /\ (ResponseStep /\ last'.matched /\ \E i \in DOMAIN hooks : hooks[i] = "raise")
            => last'.raised]_vars

\* the second callback raised after the first one renamed the span: the span
\* carries the status and the first callback's resource, and is open and active
C13_Witness ==
    /\ last.op = "process_response" /\ last.span # 0 /\ last.raised
    /\ hooks = <<"mutate", "raise">>
    /\ spans[last.span].tags.status = S500
    /\ spans[last.span].resource = <<"h", "o", "o", "k", "1">>
    /\ spans[last.span].finished = 0
    /\ active[last.ctx] = ActiveSpan(last.span)

\* C14: the unmatched-route branch of process_response returns after finish:
\* no callback of the "request" hook runs, nothing is raised, and the span
\* changes in its resource, its status tag and its finish only: traceback,
\* route, response headers and every other field stay as they were, and so
\* does every other span.
C14_UnmatchedRouteSkipsRest ==
    [][(ResponseStep /\ ~last'.matched) =>
         LET s == last'.span
         IN  /\ last'.obs = <<>>
             /\ ~last'.raised
             /\ hooks' = hooks
             /\ spans' = [spans EXCEPT ![s].resource = <<"G", "E", "T", " ", "4", "0", "4">>,
                                      ![s].tags.status = <<"4", "0", "4">>,
                                      ![s].finished = 1]]_vars

\* with a raising callback registered and an exception in flight the
\* unmatched branch finished the span: no callback ran, no traceback, no route
C14_Witness ==
    /\ last.op = "process_response" /\ last.span # 0 /\ ~last.matched
    /\ hooks = <<"raise">>
    /\ last.obs = <<>> /\ ~last.raised
    /\ spans[last.span].finished = 1
    /\ spans[last.span].traceback = 0
    /\ spans[last.span].tags.route = NoneStr
    /\ spans[last.span].tags.resp_headers = NoneStr
    /\ spans[last.span].resource = <<"G", "E", "T", " ", "4", "0", "4">>

\* how far a span is: OPEN, CLASSIFIED (it carries a status), FINISHED
Rank(span) ==
    IF span.finished > 0 THEN 3
    ELSE IF span.tags.status # NoneStr THEN 2
    ELSE 1

\* C15: a request span only moves forward (created open, then classified,
\* then finished): no callback writes to a span after it called finish on it,
\* no step takes a span back, and once a span is finished no later callback
\* of the request (a late process_resource, a repeated process_response, a
\* hook callback) changes anything of it.
C15_ForwardOnlyLifecycle ==
    [][/\ ~last'.late
       /\ Len(spans') >= Len(spans)
       /\ \A s \in DOMAIN spans :
            /\ Rank(spans'[s]) >= Rank(spans[s])
            /\ spans[s].finished > 0 => spans'[s] = spans[s]
       /\ \A s \in DOMAIN spans' : s \notin DOMAIN spans => Rank(spans'[s]) = 1]_vars

\* a process_resource that came after the span a callback had renamed was
\* finished, and found nothing to write to
C15_Witness ==
    /\ last.op = "process_resource" /\ last.span = 0
    /\ hooks = <<"mutate">>
    /\ Len(spans) = 1
    /\ spans[1].finished = 1
    /\ spans[1].tags.status = S500
    /\ spans[1].resource = <<"h", "o", "o", "k", "1">>

\* C18: over the whole life of a span the middleware sets a traceback on it
\* at most once, only in a process_response on a matched route that infers
\* the status from an exception type that is not not-found-like, and a span
\* that carries a traceback carries the status "500".
C18_TracebackOnceOnly500 ==
    [][\A s \in DOMAIN spans :
         /\ spans'[s].traceback <= 1
         /\ spans'[s].traceback >= 1 => spans'[s].tags.status = <<"5", "0", "0">>
         /\ spans'[s].traceback # spans[s].traceback =>
              /\ ResponseStep /\ last'.span = s /\ last'.matched
              /\ last'.err_type = ValueError
              /\ last'.req_succeeded \in {"None", "False"}]_vars

-----------------------------------------------------------------------------
(* Liveness of one request whose response is reached: LiveSpec *)

\* the span process_request opened is open
RequestOpen == Len(spans) = 1 /\ spans[1].finished = 0

RequestFinished == Len(spans) = 1 /\ spans[1].finished > 0

RaisingHook == \E i \in DOMAIN hooks : hooks[i] = "raise"

\* C16: when the request reaches process_response, the span process_request
\* opened is eventually finished unless a callback of the "request" hook
\* raises; and only a process_response call that acts on the span and raises
\* nothing finishes it: process_request, process_resource and the hook
\* registry never do, so a request that never reaches process_response
\* leaves its span open for ever.
C16_FinishedOrLeaked ==
    /\ RequestOpen ~> (RequestFinished \/ RaisingHook)
    /\ [][\A s \in DOMAIN spans :
            spans'[s].finished # spans[s].finished =>
               /\ last'.op = "process_response"
               /\ last'.span = s
               /\ ~last'.raised
               /\ spans[s].finished = 0]_vars

\* process_resource and a mutating callback came before the span was finished
\* by the process_response that reported "204"
C16_Witness ==
    /\ last.op = "process_response" /\ last.span = 1 /\ ~last.raised
    /\ ~RaisingHook
    /\ RequestFinished
    /\ last.req_succeeded = "True"
    /\ Len(last.obs) = Len(hooks)

-----------------------------------------------------------------------------
(* Properties of interleaved requests and child spans: Spec *)

\* span t is span r or has it among its parents
RECURSIVE Descends(_, _, _)
Descends(sp, t, r) ==
    IF t = 0 THEN FALSE
    ELSE IF t = r THEN TRUE
    ELSE Descends(sp, sp[t].parent, r)

\* the open span of the latest process_request of each context
OpenRequestSpans ==
    { r \in DOMAIN spans :
        /\ spans[r].name = "falcon.request"
        /\ spans[r].finished = 0
        /\ \A t \in DOMAIN spans :
             (t > r /\ spans[t].ctx = spans[r].ctx) => spans[t].name # "falcon.request" }

\* the request span is in the active chain of its context and every later span
\* of the context is below it
RequestSpanActive ==
    \A r \in OpenRequestSpans :
        LET c == spans[r].ctx
        IN  /\ active[c].kind = "span"
            /\ Descends(spans, active[c].span, r)
            /\ \A t \in DOMAIN spans :
                 (t > r /\ spans[t].ctx = c) =>
                    Descends(spans, t, r) /\ spans[t].parent_id = spans[t].parent

\* C8: process_request creates exactly one span, which is the active span of
\* the context when it returns; until process_response finishes it, it stays
\* in the active chain of its context and every span created meanwhile in the
\* context has it as an ancestor through the parent ids.
C8_OneActiveRequestSpan ==
    [][/\ RequestSpanActive'
       /\ last'.op = "process_request" =>
            LET s == Len(spans')
            IN  /\ Len(spans') = Len(spans) + 1
                /\ SubSeq(spans', 1, Len(spans)) = spans
                /\ last'.span = s
                /\ active'[last'.ctx] = ActiveSpan(s)
                /\ \A c \in Ctxs \ {last'.ctx} : active'[c] = active[c]
                /\ spans'[s].name = "falcon.request"
                /\ spans'[s].ctx = last'.ctx
                /\ spans'[s].finished = 0
                /\ spans'[s].tags.kind = "server"
                /\ spans'[s].span_type = "web"]_vars

\* a request span with an open child span as the active span above it
C8_Witness ==
    /\ Len(spans) = 2
    /\ spans[1].name = "falcon.request" /\ spans[1].finished = 0
    /\ spans[2].name = "child" /\ spans[2].parent_id = 1 /\ spans[2].finished = 0
    /\ active[spans[1].ctx] = ActiveSpan(2)
    /\ last.op = "process_resource"

\* the open child spans of context c created after span r
OpenChildren(sp, c, r) ==
    { t \in DOMAIN sp : /\ t > r /\ sp[t].ctx = c
                        /\ sp[t].name = "child" /\ sp[t].finished = 0 }

\* C19: process_resource and process_response act on the span that is active
\* in their context when they are called. That span is the open span of the
\* request exactly when no child span opened since is still open; with a
\* child span still open the callback acts on a child span: process_resource
\* renames the child, process_response tags and finishes the child, and the
\* request span stays as it was, open.
C19_ActsOnCurrentSpan ==
    [][(last'.op \in {"process_resource", "process_response"} /\ last'.span # 0) =>
         LET c == last'.ctx
             s == last'.span
             r == OwnRequestSpan(spans, c)
         IN  /\ active[c] = ActiveSpan(s)
             /\ r # 0
             /\ (s = r) <=> (OpenChildren(spans, c, r) = {})
             /\ s # r => /\ s \in OpenChildren(spans, c, r)
                         /\ spans'[r] = spans[r]
             /\ \A t \in DOMAIN spans : t # s => spans'[t] = spans[t]
             /\ last'.op = "process_resource" =>
                  spans'[s] = [spans[s] EXCEPT
                                 !.resource = <<"G", "E", "T", " ", "a", "p", "p", ".", "R", "e", "s">>]
             /\ last'.op = "process_response" =>
                  /\ spans'[s].finished = 1
                  /\ spans'[s].tags.status # NoneStr
                  /\ ~last'.matched =>
                       spans'[s].resource = <<"G", "E", "T", " ", "4", "0", "4">>]_vars

\* process_response came while the child span was active: the child span is
\* finished as "GET 404", the request span is open without a status and is
\* the active span again
C19_Witness ==
    /\ Len(spans) = 2
    /\ last.op = "process_response" /\ last.span = 2 /\ ~last.matched
    /\ spans[2].name = "child" /\ spans[2].parent = 1
    /\ spans[2].finished = 1
    /\ spans[2].tags.status = S404
    /\ spans[2].resource = <<"G", "E", "T", " ", "4", "0", "4">>
    /\ spans[1].name = "falcon.request"
    /\ spans[1].finished = 0 /\ spans[1].tags.status = NoneStr
    /\ active[spans[1].ctx] = ActiveSpan(1)

-----------------------------------------------------------------------------
(* Properties of two concurrent requests: TwoRequestSpec *)

\* the spans of context c
Own(sp, c) == { i \in DOMAIN sp : sp[i].ctx = c }

\* the place of span i among the spans of its context, 0 for no span
Pos(sp, c, i) == Cardinality({ j \in Own(sp, c) : j <= i })

\* the tracer as context c alone would have it: the spans of c only, numbered
\* as c created them, and the active span of c
Alone(sp, act, c) ==
    LET n == Cardinality(Own(sp, c))
        nth(k) == CHOOSE i \in Own(sp, c) : Pos(sp, c, i) = k
    IN  [spans |-> [k \in 1..n |-> [sp[nth(k)] EXCEPT !.parent = Pos(sp, c, @)]],
         active |-> [d \in Ctxs |->
                       IF d # c THEN NoActive
                       ELSE IF act[c].kind = "span" THEN ActiveSpan(Pos(sp, c, act[c].span))
                       ELSE act[c]],
         raised |-> FALSE, obs |-> <<>>, handed |-> {}, late |-> FALSE]

\* what the tracing backend gets of a tracer: per span the name, the resource,
\* the tags, the traceback, the finish and the place of the parent; and what
\* is active
Outcome(w) ==
    [spans |-> [k \in DOMAIN w.spans |->
                  [name |-> w.spans[k].name, resource |-> w.spans[k].resource,
                   tags |-> w.spans[k].tags, traceback |-> w.spans[k].traceback,
                   finished |-> w.spans[k].finished, parent |-> w.spans[k].parent,
                   context |-> w.spans[k].context]],
     active |-> w.active, raised |-> w.raised]

\* the call that `l` records, made on tracer w
Replay(l, w) ==
    LET req == [method |-> l.method, url |-> Url, headers |-> l.headers,
                root_path |-> l.root_path, uri_template |-> l.uri_template]
        resp == [status |-> l.status_line, headers |-> RespHeaders]
        resource == IF l.matched THEN CHOOSE h \in Handlers : TRUE ELSE NoResource
    IN  CASE l.op = "process_request" -> process_request(w, l.ctx, distributed_tracing, req)
          [] l.op = "process_resource" ->
                process_resource(w, l.ctx, l.method, CHOOSE h \in Handlers : TRUE)
          [] l.op = "process_response" ->
                process_response(w, l.ctx, hooks, req, resp, resource,
                                 l.req_succeeded, l.err_type)
          [] l.op = "child_start" -> TracerTrace(w, l.ctx, "child", "db", "sql")
          [] l.op = "child_finish" -> SpanFinish(w, Pos(spans, l.ctx, l.span))
          [] OTHER -> w

\* C17: with requests of two execution contexts interleaved in any order,
\* a callback of one context leaves the spans and the active span of the other
\* context as they were, and does to the spans of its own context exactly what
\* it does when the context runs alone: resource, tags (status among them),
\* traceback and finish of every span are those of the request run alone.
C17_ContextsIndependent ==
    [][LET c == last'.ctx
       IN  /\ \A d \in Ctxs \ {c} : active'[d] = active[d]
           /\ \A i \in DOMAIN spans : spans[i].ctx # c => spans'[i] = spans[i]
           /\ \A i \in DOMAIN spans' : i \notin DOMAIN spans => spans'[i].ctx = c
           /\ Outcome([Alone(spans', active', c) EXCEPT !.raised = last'.raised])
                = Outcome(Replay(last', Alone(spans, active, c)))]_vars

\* two requests in flight, one per context: the second context's span was
\* finished with "500" and a traceback while the first one's is open, named
\* by its process_resource, without status or traceback
C17_Witness ==
    /\ Len(spans) = 2
    /\ spans[1].ctx # spans[2].ctx
    /\ spans[1].name = "falcon.request" /\ spans[2].name = "falcon.request"
    /\ spans[1].finished = 0
    /\ spans[1].resource = <<"G", "E", "T", " ", "a", "p", "p", ".", "R", "e", "s">>
    /\ spans[1].tags.status = NoneStr /\ spans[1].traceback = 0
    /\ active[spans[1].ctx] = ActiveSpan(1)
    /\ last.op = "process_response" /\ last.span = 2
    /\ spans[2].finished = 1 /\ spans[2].tags.status = S500 /\ spans[2].traceback = 1

-----------------------------------------------------------------------------
(* Properties of the header normalisation: HeaderSpec *)

\* the same character up to its case
SameLetter(a, b) ==
    \/ a = b
    \/ \E n \in DOMAIN UpperChars :
         {a, b} = {UpperChars[n], LowerChars[n]}

\* two header mappings that differ in the case of their names only
SameUpToCase(h1, h2) ==
    /\ Len(h1) = Len(h2)
    /\ \A i \in DOMAIN h1 :
         /\ h1[i][2] = h2[i][2]
         /\ Len(h1[i][1]) = Len(h2[i][1])
         /\ \A j \in DOMAIN h1[i][1] : SameLetter(h1[i][1][j], h2[i][1][j])

RequestSpans == { s \in DOMAIN spans : spans[s].name = "falcon.request" }

\* C9: the header names handed to the extraction of the distributed context
\* hold no upper-case letter, and two requests whose header mappings differ
\* only in the case of the names get the same parent context (the same trace
\* id and parent id, or none both).
C9_HeaderCaseInsensitive ==
    /\ last.op = "process_request" =>
         /\ Cardinality(last.handed) <= Len(last.headers)
         /\ \A k \in last.handed : \A j \in DOMAIN k :
              \A n \in DOMAIN UpperChars : k[j] # UpperChars[n]
         /\ \A i \in DOMAIN last.headers :
              \E k \in last.handed : SameUpToCase(<<<<k, "">>>>, <<<<last.headers[i][1], "">>>>)
    /\ \A s1, s2 \in RequestSpans :
         SameUpToCase(spans[s1].tags.req_headers, spans[s2].tags.req_headers) =>
            /\ spans[s1].context = spans[s2].context
            /\ spans[s1].parent_id = spans[s2].parent_id
            /\ spans[s1].context # NoActive => spans[s1].trace_id = spans[s2].trace_id

\* "X-Tid"/"X-PID" in one request and "x-tid"/"x-pid" in the other, both
\* continuing trace 71 under parent 72
C9_Witness ==
    /\ Len(spans) = 2
    /\ spans[1].tags.req_headers # spans[2].tags.req_headers
    /\ SameUpToCase(spans[1].tags.req_headers, spans[2].tags.req_headers)
    /\ spans[1].trace_id = 71 /\ spans[1].parent_id = 72
    /\ spans[2].trace_id = 71 /\ spans[2].parent_id = 72
    /\ last.op = "process_request"

-----------------------------------------------------------------------------
(* Properties of the patch registry: PatchSpec *)

\* the entry points of an installed library carry one wrapper when it is
\* patched and none when it is not, and a call emits that many spans
WrappedOnce ==
    /\ \A lib \in Libs :
         registry[lib].installed =>
            /\ registry[lib].patched => registry[lib].entry = <<"traced">>
            /\ ~registry[lib].patched => registry[lib].entry = <<>>
            /\ registry[lib].streak >= 1 => registry[lib].patched
    /\ plast.op = "call" =>
         plast.spans = IF registry[plast.lib].patched THEN 1 ELSE 0
    /\ (plast.op = "unpatch" /\ registry[plast.lib].installed) =>
         /\ ~registry[plast.lib].patched
         /\ registry[plast.lib].entry = <<>>

\* C10: for an installed library, after any N >= 1 consecutive patch() calls
\* is_patched() is true and the entry points are wrapped exactly once (one
\* span per call); unpatch() after any number of patch() calls leaves
\* is_patched() false and the original entry points; patch() while patched
\* and unpatch() while unpatched change nothing.
C10_PatchIdempotent ==
    [][/\ WrappedOnce'
       /\ \A lib \in Libs :
            /\ (plast'.op = "patch" /\ plast'.lib = lib /\ registry[lib].patched) =>
                 Observable(registry'[lib]) = Observable(registry[lib])
            /\ (plast'.op = "unpatch" /\ plast'.lib = lib /\ ~registry[lib].patched) =>
                 Observable(registry'[lib]) = Observable(registry[lib])
            /\ (plast'.op \in {"patch", "unpatch"} /\ plast'.lib # lib) =>
                 registry'[lib] = registry[lib]
            /\ (plast'.op = "is_patched" /\ plast'.lib = lib) =>
                 plast'.result = IF registry[lib].entry = <<>> THEN "False" ELSE "True"]_vars

\* patch() twice in a row, then a call that emitted one span
C10_Witness ==
    /\ plast.op = "call"
    /\ registry[plast.lib].streak >= 2
    /\ registry[plast.lib].patched
    /\ plast.spans = 1

\* C12: for a library that is not installed patch() completes and changes
\* nothing: after any number of patch() and unpatch() calls the library is
\* unpatched with nothing wrapped, is_patched() answers false and
\* get_version() reports no version.
C12_MissingLibraryUnpatched ==
    \A lib \in Libs :
        ~registry[lib].installed =>
            /\ ~registry[lib].patched
            /\ registry[lib].entry = <<>>
            /\ (plast.op = "is_patched" /\ plast.lib = lib) => plast.result = "False"
            /\ (plast.op = "get_version" /\ plast.lib = lib) => plast.result = ""
            /\ (plast.op = "call") => plast.lib # lib

\* is_patched() answered false for a missing library after two patch() calls
C12_Witness ==
    /\ plast.op = "is_patched"
    /\ ~registry[plast.lib].installed
    /\ registry[plast.lib].streak >= 2
    /\ plast.result = "False"

-----------------------------------------------------------------------------
(* Properties of concurrent patch() / unpatch(): ThreadSpec *)

====
